---- MODULE Spec2Model ----
(***************************************************************************)
(* Model of the BBTTracker component (src/unnamed/part_000): the record    *)
(* store `temperatures`, direct entry (addTemperature), CSV import         *)
(* (importCSV and its FileReader onload callback), the fertile-window      *)
(* detector (analyzeFertileWindows) and the cycle predictor                *)
(* (predictNextFertileWindow, calculateCycleLength).                       *)
(*                                                                         *)
(* Representation.                                                         *)
(*  - JavaScript strings are TLA+ strings; characters are reached with     *)
(*    SubSeq(s, i, i).                                                     *)
(*  - A temperature is an integer number of tenths of a degree (98.6 is    *)
(*    986); the enumerated inputs carry at most one fractional digit, so   *)
(*    sums and comparisons are exact.  avgTemp is kept as the sum of the   *)
(*    seven readings (seven times the mean), which orders the same way.    *)
(*  - null and undefined are the empty sequence <<>>, a present value v    *)
(*    is <<v>>.                                                            *)
(*  - A Date is the number of days since 1970-01-01 (UTC midnight of a     *)
(*    date-only ISO string); the local time zone (tzWest) and the engine's *)
(*    Date parser (lenientDates) are fixed when the component starts.      *)
(*  - An intermediate value of the code that is read more than once is an  *)
(*    operator parameter here (a const of the code becomes the argument of *)
(*    the operator that continues the computation).                        *)
(***************************************************************************)
EXTENDS Integers, Sequences, FiniteSets, TLC

(***************************************************************************)
(* State of the component and of its environment                           *)
(***************************************************************************)
VARIABLES
  temperatures,    \* useState([]): the record store
  fertileWindows,  \* useState([])
  prediction,      \* useState(null): Null or Some(prediction)
  saved,           \* localStorage 'bbt-data'
  mounted,         \* the mount effects have run
  pending,         \* FileReaders reading: the file text and the `temperatures`
                   \* their onload closes over
  last,            \* the handler that ran last and the path it took
  tzWest,          \* the local time zone is west of Greenwich (UTC otherwise)
  lenientDates,    \* the engine's Date parser: TRUE reads what V8 reads (a day up
                   \* to 31 in any month, dates without zero padding), FALSE
                   \* reads valid ISO dates only
  ops              \* user actions taken

vars == <<temperatures, fertileWindows, prediction, saved, mounted, pending, last, tzWest,
         lenientDates, ops>>

(***************************************************************************)
(* Strings                                                                 *)
(***************************************************************************)
CharAt(s, i) == SubSeq(s, i, i)

Digits == "0123456789"

Upper == "ABCDEFGHIJKLMNOPQRSTUVWXYZ"

Lower == "abcdefghijklmnopqrstuvwxyz"

\* Characters in ascending UTF-16 code-unit order (those the inputs use).
CodeOrder == "\t\n\r !#$%&()*+,-./0123456789:;<=>?@ABCDEFGHIJKLMNOPQRSTUVWXYZ[]^_abcdefghijklmnopqrstuvwxyz{|}~"

RECURSIVE IndexFrom(_, _, _)
IndexFrom(s, c, i) ==
  IF i > Len(s) THEN 0
  ELSE IF CharAt(s, i) = c THEN i
  ELSE IndexFrom(s, c, i + 1)

\* Position of the first occurrence of the one-character string c in s, 0 when absent.
IndexIn(s, c) == IndexFrom(s, c, 1)

DigitChars == {CharAt(Digits, i) : i \in 1..Len(Digits)}

DigitValues == [c \in DigitChars |-> IndexIn(Digits, c) - 1]

IsDigit(c) == c \in DigitChars

DigitVal(c) == DigitValues[c]

CodeUnits == [c \in {CharAt(CodeOrder, i) : i \in 1..Len(CodeOrder)} |-> IndexIn(CodeOrder, c)]

LowerOf == [c \in {CharAt(Upper, i) : i \in 1..Len(Upper)} |-> CharAt(Lower, IndexIn(Upper, c))]

IsSpace(c) == c \in {" ", "\t", "\n", "\r"}

\* String.prototype.includes
Includes(s, sub) ==
  \E i \in 1..(Len(s) - Len(sub) + 1) : SubSeq(s, i, i + Len(sub) - 1) = sub

RECURSIVE TrimStart(_)
TrimStart(s) ==
  IF s # "" /\ IsSpace(CharAt(s, 1)) THEN TrimStart(SubSeq(s, 2, Len(s))) ELSE s

RECURSIVE TrimEnd(_)
TrimEnd(s) ==
  IF s # "" /\ IsSpace(CharAt(s, Len(s))) THEN TrimEnd(SubSeq(s, 1, Len(s) - 1)) ELSE s

\* String.prototype.trim
Trim(s) == TrimEnd(TrimStart(s))

LowerChar(c) == IF c \in DOMAIN LowerOf THEN LowerOf[c] ELSE c

RECURSIVE ToLowerCase(_)
\* String.prototype.toLowerCase
ToLowerCase(s) ==
  IF s = "" THEN ""
  ELSE LowerChar(CharAt(s, 1)) \o ToLowerCase(SubSeq(s, 2, Len(s)))

RECURSIVE Split(_, _)
RECURSIVE SplitAt(_, _, _)
\* String.prototype.split with a one-character separator
Split(s, sep) == SplitAt(s, sep, IndexIn(s, sep))

SplitAt(s, sep, k) ==
  IF k = 0 THEN <<s>>
  ELSE <<SubSeq(s, 1, k - 1)>> \o Split(SubSeq(s, k + 1, Len(s)), sep)

RECURSIVE PadZero(_, _)
\* String.prototype.padStart(w, 0)
PadZero(s, w) == IF Len(s) >= w THEN s ELSE PadZero("0" \o s, w)

RECURSIVE StrLess(_, _)
\* The < of two strings (code-unit order)
StrLess(a, b) ==
  IF b = "" THEN FALSE
  ELSE IF a = "" THEN TRUE
  ELSE IF CharAt(a, 1) # CharAt(b, 1) THEN CodeUnits[CharAt(a, 1)] < CodeUnits[CharAt(b, 1)]
  ELSE StrLess(SubSeq(a, 2, Len(a)), SubSeq(b, 2, Len(b)))

RECURSIVE DigitsValue(_)
\* Value of a string of decimal digits
DigitsValue(s) ==
  IF s = "" THEN 0
  ELSE 10 * DigitsValue(SubSeq(s, 1, Len(s) - 1)) + DigitVal(CharAt(s, Len(s)))

RECURSIVE NumStr(_)
\* Decimal digits of a natural number
NumStr(n) ==
  IF n < 10 THEN CharAt(Digits, n + 1)
  ELSE NumStr(n \div 10) \o CharAt(Digits, (n % 10) + 1)

RECURSIVE DigitPrefixFrom(_, _)
DigitPrefixFrom(s, i) ==
  IF i <= Len(s) /\ IsDigit(CharAt(s, i)) THEN DigitPrefixFrom(s, i + 1) ELSE i - 1

\* The longest prefix of s made of digits
DigitPrefix(s) == SubSeq(s, 1, DigitPrefixFrom(s, 1))

(***************************************************************************)
(* Numbers                                                                 *)
(***************************************************************************)
NaN == [nan |-> TRUE, v |-> 0]

Num(n) == [nan |-> FALSE, v |-> n]

Max2(a, b) == IF a >= b THEN a ELSE b

Min2(a, b) == IF a <= b THEN a ELSE b

\* The digits after a leading decimal point of rest, "" when there is none
FractionDigits(rest) ==
  IF rest # "" /\ CharAt(rest, 1) = "." THEN DigitPrefix(SubSeq(rest, 2, Len(rest))) ELSE ""

ParseMagnitude(int, frac, neg) ==
  IF int = "" /\ frac = "" THEN NaN
  ELSE Num((IF neg THEN -1 ELSE 1)
           * (10 * DigitsValue(int) + (IF frac = "" THEN 0 ELSE DigitVal(CharAt(frac, 1)))))

ParseDigits(s1, int, neg) ==
  ParseMagnitude(int, FractionDigits(SubSeq(s1, Len(int) + 1, Len(s1))), neg)

ParseSigned(s0) ==
  IF s0 # "" /\ CharAt(s0, 1) \in {"-", "+"}
  THEN ParseDigits(SubSeq(s0, 2, Len(s0)), DigitPrefix(SubSeq(s0, 2, Len(s0))), CharAt(s0, 1) = "-")
  ELSE ParseDigits(s0, DigitPrefix(s0), FALSE)

\* parseFloat: leading white space, an optional sign, digits, an optional
\* fraction; the result in tenths (the first fractional digit is kept).
ParseFloat(str) == ParseSigned(TrimStart(str))

(***************************************************************************)
(* Dates                                                                   *)
(***************************************************************************)
DaysFromShifted(yy, mp, d) ==
  (yy \div 400) * 146097
  + (yy % 400) * 365 + (yy % 400) \div 4 - (yy % 400) \div 100
  + (153 * mp + 2) \div 5 + d - 1
  - 719468

\* MakeDay: days since 1970-01-01 of year y, month m (1..12), day d; a day
\* beyond the month's length runs into the following month.
DaysFromCivil(y, m, d) ==
  DaysFromShifted(IF m <= 2 THEN y - 1 ELSE y, IF m > 2 THEN m - 3 ELSE m + 9, d)

CivilFromMp(doy, y0, mp) ==
  [y |-> y0 + (IF mp >= 10 THEN 1 ELSE 0),
   m |-> IF mp < 10 THEN mp + 3 ELSE mp - 9,
   d |-> doy - (153 * mp + 2) \div 5 + 1]

CivilFromDoy(doy, y0) == CivilFromMp(doy, y0, (5 * doy + 2) \div 153)

CivilFromYoe(doe, era, yoe) ==
  CivilFromDoy(doe - (365 * yoe + yoe \div 4 - yoe \div 100), yoe + era * 400)

CivilFromDoe(doe, era) ==
  CivilFromYoe(doe, era, (doe - doe \div 1460 + doe \div 36524 - doe \div 146096) \div 365)

\* Year, month and day of a day number
CivilFromDays(z) == CivilFromDoe((z + 719468) % 146097, (z + 719468) \div 146097)

FormatISODate(c) ==
  PadZero(NumStr(c.y), 4) \o "-" \o PadZero(NumStr(c.m), 2) \o "-" \o PadZero(NumStr(c.d), 2)

\* Date.prototype.toISOString().split('T')[0]
ToISODate(z) == FormatISODate(CivilFromDays(z))

\* The two-digit decimal numerals and their values
TwoDigits ==
  [s \in {CharAt(Digits, a + 1) \o CharAt(Digits, b + 1) : a \in 0..9, b \in 0..9}
     |-> 10 * DigitVal(CharAt(s, 1)) + DigitVal(CharAt(s, 2))]

IsTwoDigits(s) == s \in DOMAIN TwoDigits

\* The shape YYYY-MM-DD
IsISOShape(s) ==
  /\ Len(s) = 10
  /\ CharAt(s, 5) = "-" /\ CharAt(s, 8) = "-"
  /\ IsTwoDigits(SubSeq(s, 1, 2)) /\ IsTwoDigits(SubSeq(s, 3, 4))
  /\ IsTwoDigits(SubSeq(s, 6, 7)) /\ IsTwoDigits(SubSeq(s, 9, 10))

\* A Date: the UTC day its time value falls in, and whether the time value
\* is later than that day's UTC midnight
DateValue(day, late) == [nan |-> FALSE, v |-> day, late |-> late]

DaysInMonth(y, m) ==
  IF m = 12 THEN 31 ELSE DaysFromCivil(y, m + 1, 1) - DaysFromCivil(y, m, 1)

\* The last day the parser takes in month m of year y
LastDay(y, m) == IF lenientDates THEN 31 ELSE DaysInMonth(y, m)

\* A date-only ISO string: UTC midnight
DateFromParts(y, m, d) ==
  IF m \in 1..12 /\ d >= 1 /\ d <= LastDay(y, m)
  THEN DateValue(DaysFromCivil(y, m, d), FALSE)
  ELSE NaN

IsDigits(s, lo, hi) == Len(s) >= lo /\ Len(s) <= hi /\ DigitPrefix(s) = s

\* year-month-day with a four-digit year and a month and a day of one or two
\* digits
IsLooseShape(parts) ==
  /\ Len(parts) = 3
  /\ IsDigits(parts[1], 4, 4) /\ IsDigits(parts[2], 1, 2) /\ IsDigits(parts[3], 1, 2)

\* What the fallback parser reads: local midnight, which west of Greenwich
\* is later than UTC midnight of the same day
LocalDateFromParts(y, m, d) ==
  IF m \in 1..12 /\ d \in 1..31 THEN DateValue(DaysFromCivil(y, m, d), tzWest) ELSE NaN

LooseDate(parts) ==
  IF lenientDates /\ IsLooseShape(parts)
  THEN LocalDateFromParts(DigitsValue(parts[1]), DigitsValue(parts[2]), DigitsValue(parts[3]))
  ELSE NaN

\* The shape YYYY-MM, the date-only form without a day
IsYearMonthShape(s) ==
  /\ Len(s) = 7
  /\ CharAt(s, 5) = "-"
  /\ IsTwoDigits(SubSeq(s, 1, 2)) /\ IsTwoDigits(SubSeq(s, 3, 4))
  /\ IsTwoDigits(SubSeq(s, 6, 7))

\* new Date(str).  A date-only ISO string (YYYY-MM-DD, or YYYY-MM for the
\* first of the month) is UTC midnight of the day.  What else is read is left
\* to the engine: a lenient one takes a day up to 31 in any month (the date
\* runs into the next month) and reads a year-month-day string without zero
\* padding as local midnight; a strict one gives NaN (Invalid Date) for both.
\* Any other string is NaN.
NewDate(str) ==
  IF IsISOShape(str)
  THEN DateFromParts(100 * TwoDigits[SubSeq(str, 1, 2)] + TwoDigits[SubSeq(str, 3, 4)],
                     TwoDigits[SubSeq(str, 6, 7)],
                     TwoDigits[SubSeq(str, 9, 10)])
  ELSE IF IsYearMonthShape(str)
  THEN DateFromParts(100 * TwoDigits[SubSeq(str, 1, 2)] + TwoDigits[SubSeq(str, 3, 4)],
                     TwoDigits[SubSeq(str, 6, 7)], 1)
  ELSE LooseDate(Split(str, "-"))

\* Date.prototype.getDate(): the day of the month in local time.  UTC
\* midnight falls on the previous local day west of Greenwich.
GetDate(date, west) == CivilFromDays(IF west /\ ~date.late THEN date.v - 1 ELSE date.v).d

(***************************************************************************)
(* Record store helpers                                                    *)
(***************************************************************************)
Null == <<>>

Some(v) == <<v>>

\* s || null
OrNull(s) == IF s = "" THEN Null ELSE Some(s)

\* A sequence given by a rule, with every element computed once
Tabulate(f) == f @@ <<>>

Reading(date, temperature, cervixHeight, ovulationStrip) ==
  [date |-> date, temperature |-> temperature,
   cervixHeight |-> cervixHeight, ovulationStrip |-> ovulationStrip]

RECURSIVE FindDateFrom(_, _, _)
FindDateFrom(temps, date, i) ==
  IF i > Len(temps) THEN -1
  ELSE IF temps[i].date = date THEN i - 1
  ELSE FindDateFrom(temps, date, i + 1)

\* Array.prototype.findIndex(t => t.date === date): 0-based, -1 when absent
FindIndexByDate(temps, date) == FindDateFrom(temps, date, 1)

\* The value of new Date(a.date) - new Date(b.date) from the two time values;
\* Array.prototype.sort takes a NaN difference as 0.
DateDifference(da, db) ==
  IF da.nan \/ db.nan THEN 0
  ELSE IF da.v # db.v THEN da.v - db.v
  ELSE (IF da.late THEN 1 ELSE 0) - (IF db.late THEN 1 ELSE 0)

\* The place of element i in a stable sort: after the elements that compare
\* smaller and after the earlier ones that compare equal
Rank(key, i) ==
  Cardinality({j \in 1..Len(key) :
                 \/ DateDifference(key[j], key[i]) < 0
                 \/ (j < i /\ DateDifference(key[j], key[i]) = 0)}) + 1

Permute(arr, at) == Tabulate([p \in 1..Len(arr) |-> arr[CHOOSE i \in 1..Len(arr) : at[i] = p]])

SortWithKeys(arr, key) == Permute(arr, Tabulate([i \in 1..Len(arr) |-> Rank(key, i)]))

\* [...arr].sort((a, b) => new Date(a.date) - new Date(b.date)), a stable sort
SortByDate(arr) == SortWithKeys(arr, Tabulate([i \in 1..Len(arr) |-> NewDate(arr[i].date)]))

(***************************************************************************)
(* Fertile window detector                                                 *)
(***************************************************************************)
\* temp.date.substring(0, 7)
MonthKey(date) == SubSeq(date, 1, Min2(7, Len(date)))

RECURSIVE SortStrings(_)
RECURSIVE SortStringsFrom(_, _)
\* Object.keys(months).sort()
SortStrings(S) ==
  IF S = {} THEN <<>>
  ELSE SortStringsFrom(S, CHOOSE k \in S : \A o \in S : ~StrLess(o, k))

SortStringsFrom(S, least) == <<least>> \o SortStrings(S \ {least})

\* months[monthKey]: the readings of one month, in sortedTemps order
MonthTemps(sortedTemps, monthKey) ==
  SelectSeq(sortedTemps, LAMBDA t : MonthKey(t.date) = monthKey)

\* weekTemps.reduce((sum, t) => sum + t.temperature, 0)
SumTemperature(weekTemps) ==
  weekTemps[1].temperature + weekTemps[2].temperature + weekTemps[3].temperature
  + weekTemps[4].temperature + weekTemps[5].temperature + weekTemps[6].temperature
  + weekTemps[7].temperature

WeekEntry(weekTemps) ==
  [startDate    |-> weekTemps[1].date,
   endDate      |-> weekTemps[7].date,
   avgTemp      |-> SumTemperature(weekTemps),
   temperatures |-> weekTemps]

\* The entry the loop pushes at 0-based offset i
SevenDayAverage(monthTemps, i) == WeekEntry(SubSeq(monthTemps, i + 1, i + 7))

SevenDayAverages(monthTemps) ==
  Tabulate([k \in 1..(Len(monthTemps) - 6) |-> SevenDayAverage(monthTemps, k - 1)])

\* The reduce callback with >= in place of >: a later span of equal average wins
PickHigherOrEqual(max, current) == IF current.avgTemp >= max.avgTemp THEN current ELSE max

\* One step of the reduce callback
PickHigher(max, current) == IF current.avgTemp > max.avgTemp THEN current ELSE max

RECURSIVE ReduceFrom(_, _, _)
ReduceFrom(averages, max, k) ==
  IF k > Len(averages) THEN max
  ELSE ReduceFrom(averages, PickHigher(max, averages[k]), k + 1)

\* sevenDayAverages.reduce((max, current) => ...), no initial value
HighestWeek(averages) == ReduceFrom(averages, averages[1], 2)

\* The monthKeys.forEach filter: at least 14 readings in the month
HasEnoughData(monthTemps) == Len(monthTemps) >= 14

\* { month: monthKey, ...highestWeek }
WindowEntry(monthKey, highestWeek) ==
  [month        |-> monthKey,
   startDate    |-> highestWeek.startDate,
   endDate      |-> highestWeek.endDate,
   avgTemp      |-> highestWeek.avgTemp,
   temperatures |-> highestWeek.temperatures]

\* What one month contributes to `windows`
MonthWindows(monthKey, monthTemps) ==
  IF HasEnoughData(monthTemps)
  THEN <<WindowEntry(monthKey, HighestWeek(SevenDayAverages(monthTemps)))>>
  ELSE <<>>

RECURSIVE WindowsOf(_, _)
\* monthKeys.forEach(monthKey => ...)
WindowsOf(sortedTemps, monthKeys) ==
  IF monthKeys = <<>> THEN <<>>
  ELSE MonthWindows(Head(monthKeys), MonthTemps(sortedTemps, Head(monthKeys)))
       \o WindowsOf(sortedTemps, Tail(monthKeys))

WindowsOfSorted(sortedTemps) ==
  WindowsOf(sortedTemps,
            SortStrings({MonthKey(sortedTemps[i].date) : i \in 1..Len(sortedTemps)}))

\* The `windows` array analyzeFertileWindows builds once past its length check
ComputeWindows(temps) == WindowsOfSorted(SortByDate(temps))

(***************************************************************************)
(* Cycle predictor                                                         *)
(***************************************************************************)
\* Math.max(21, Math.min(35, 28 + (dayOfMonth - 14)))
ClampCycle(dayOfMonth) == Max2(21, Min2(35, 28 + (dayOfMonth - 14)))

CalculateCycleLength(fertileWindow, west) ==
  ClampCycle(GetDate(NewDate(fertileWindow.startDate), west))

\* setDate(getDate() + avgCycleLength): the argument is truncated to an
\* integer (ToIntegerOrInfinity); the sum of the two estimates is 2 * avg.
SetDatePlus(z, twiceAvg) == z + (twiceAvg \div 2)

\* Math.round(avgCycleLength): halves round up
RoundHalf(twiceAvg) == (twiceAvg + 1) \div 2

PredictionFrom(nextFertileStart, twiceAvg) ==
  [startDate   |-> ToISODate(nextFertileStart),
   endDate     |-> ToISODate(nextFertileStart + 6),
   cycleLength |-> RoundHalf(twiceAvg)]

PredictFromEstimates(lastStartDate, twiceAvg) ==
  PredictionFrom(SetDatePlus(NewDate(lastStartDate).v, twiceAvg), twiceAvg)

PredictNextFertileWindow(windows, west) ==
  PredictFromEstimates(windows[Len(windows)].startDate,
                       CalculateCycleLength(windows[Len(windows) - 1], west)
                       + CalculateCycleLength(windows[Len(windows)], west))

(***************************************************************************)
(* CSV import: the body of reader.onload                                   *)
(***************************************************************************)
RECURSIVE FindHeaderFrom(_, _, _, _)
FindHeaderFrom(headers, a, b, k) ==
  IF k > Len(headers) THEN -1
  ELSE IF Includes(headers[k], a) \/ Includes(headers[k], b) THEN k - 1
  ELSE FindHeaderFrom(headers, a, b, k + 1)

\* headers.findIndex(h => h.includes(a) || h.includes(b)): 0-based, -1 when absent
FindHeader(headers, a, b) == FindHeaderFrom(headers, a, b, 1)

HeaderCells(cells) == Tabulate([k \in 1..Len(cells) |-> ToLowerCase(Trim(cells[k]))])

\* lines[0].split(',').map(h => h.trim().toLowerCase())
Headers(line) == HeaderCells(Split(line, ","))

\* The four findIndex results
Columns(headers) ==
  [dateIndex      |-> FindHeader(headers, "date", "date"),
   tempIndex      |-> FindHeader(headers, "temp", "temp"),
   cervixIndex    |-> FindHeader(headers, "cervix", "height"),
   ovulationIndex |-> FindHeader(headers, "ovulation", "strip")]

\* index >= 0 ? row[index]?.trim() : '' ; undefined is Null
OptionalField(row, index) ==
  IF index < 0 THEN Some("")
  ELSE IF index + 1 > Len(row) THEN Null
  ELSE Some(Trim(row[index + 1]))

\* The branch for a date holding '/': month/day/year, a two-digit year
\* prefixed with 20; `date` stays undefined unless there are three parts
NormalizeSlash(parts) ==
  IF Len(parts) = 3
  THEN Some((IF Len(parts[3]) = 2 THEN "20" \o parts[3] ELSE parts[3])
            \o "-" \o PadZero(parts[1], 2) \o "-" \o PadZero(parts[2], 2))
  ELSE Null

\* The date-parsing branches: skip is the `continue` of the final else
NormalizeDate(dateStr) ==
  IF Includes(dateStr, "/")
  THEN [skip |-> FALSE, date |-> NormalizeSlash(Split(dateStr, "/"))]
  ELSE IF Includes(dateStr, "-")
  THEN [skip |-> FALSE, date |-> Some(dateStr)]
  ELSE [skip |-> TRUE, date |-> Null]

\* ovulationStr.toLowerCase() === 'true' || ovulationStr === '1' || ...
IsPositive(ovulationStr) ==
  \/ ToLowerCase(ovulationStr) = "true"
  \/ ovulationStr = "1"
  \/ ToLowerCase(ovulationStr) = "yes"

\* temp < 95 || temp > 105, in tenths
MinTemp == 950

MaxTemp == 1050

\* isNaN(temp) || temp < 95 || temp > 105
OutOfRange(temp) == temp.nan \/ temp.v < MinTemp \/ temp.v > MaxTemp

\* The row filter without the existingDates test
IsNewDateUnchecked(existingDates, date) == TRUE

\* !existingDates.has(date)
IsNewDate(existingDates, date) == date \notin existingDates

\* The entry importedData.push receives
ImportedEntry(date, temp, cervixStr, ovulationStr) ==
  Reading(date, temp,
          IF cervixStr = Null THEN Null ELSE OrNull(cervixStr[1]),
          IsPositive(ovulationStr[1]))

\* One iteration of the row loop after the length check: "skip" (continue,
\* or nothing pushed), "push" with the entry, or "throw" (the TypeError of
\* ovulationStr.toLowerCase() on undefined).
ProcessParsed(norm, temp, cervixStr, ovulationStr, existingDates) ==
  IF norm.skip THEN [kind |-> "skip"]
  ELSE IF OutOfRange(temp) THEN [kind |-> "skip"]
  ELSE IF norm.date = Null THEN [kind |-> "skip"]
  ELSE IF NewDate(norm.date[1]).nan THEN [kind |-> "skip"]
  ELSE IF ~IsNewDate(existingDates, norm.date[1]) THEN [kind |-> "skip"]
  ELSE IF ovulationStr = Null THEN [kind |-> "throw"]
  ELSE [kind |-> "push", entry |-> ImportedEntry(norm.date[1], temp.v, cervixStr, ovulationStr)]

\* if (row.length < Math.max(dateIndex, tempIndex) + 1) continue;
TooShort(row, cols) == Len(row) < Max2(cols.dateIndex, cols.tempIndex) + 1

ProcessFields(row, cols, existingDates) ==
  IF TooShort(row, cols) THEN [kind |-> "skip"]
  ELSE ProcessParsed(NormalizeDate(Trim(row[cols.dateIndex + 1])),
                     ParseFloat(Trim(row[cols.tempIndex + 1])),
                     OptionalField(row, cols.cervixIndex),
                     OptionalField(row, cols.ovulationIndex),
                     existingDates)

ProcessRow(line, cols, existingDates) == ProcessFields(Split(line, ","), cols, existingDates)

RECURSIVE RowLoop(_, _, _, _, _)
RECURSIVE RowStep(_, _, _, _, _, _)
\* for (let i = 1; i < lines.length; i++) { ... }: the importedData built by
\* the rows from i on, or the throw that ends the loop
RowLoop(lines, i, cols, existingDates, importedData) ==
  IF i + 1 > Len(lines) THEN [thrown |-> FALSE, importedData |-> importedData]
  ELSE RowStep(lines, i, cols, existingDates, importedData,
               ProcessRow(lines[i + 1], cols, existingDates))

RowStep(lines, i, cols, existingDates, importedData, r) ==
  IF r.kind = "throw" THEN [thrown |-> TRUE, importedData |-> importedData]
  ELSE RowLoop(lines, i + 1, cols, existingDates,
               IF r.kind = "push" THEN Append(importedData, r.entry) ELSE importedData)

\* [...temperatures, ...importedData].sort(...)
MergedData(temps, importedData) == SortByDate(temps \o importedData)

\* new Set(temperatures.map(t => t.date))
ExistingDates(temps) == {temps[k].date : k \in 1..Len(temps)}

Failure(kind, temps) == [kind |-> kind, importedData |-> <<>>, mergedData |-> temps]

OutcomeOfLoop(loop, temps) ==
  IF loop.thrown THEN Failure("exception", temps)
  ELSE IF Len(loop.importedData) = 0 THEN Failure("empty", temps)
  ELSE [kind         |-> "ok",
        importedData |-> loop.importedData,
        mergedData   |-> MergedData(temps, loop.importedData)]

OutcomeOfColumns(lines, cols, temps) ==
  IF cols.dateIndex = -1 \/ cols.tempIndex = -1 THEN Failure("format", temps)
  ELSE OutcomeOfLoop(RowLoop(lines, 1, cols, ExistingDates(temps), <<>>), temps)

OutcomeOfLines(lines, temps) == OutcomeOfColumns(lines, Columns(Headers(lines[1])), temps)

\* The outcome of reader.onload for the file text csvText, with `temps` the
\* `temperatures` the callback closes over:
\*   "format"    the header alert, line 165
\*   "exception" the catch block, line 237
\*   "empty"     the no-valid-data alert, line 221
\*   "ok"        setTemperatures(mergedData), line 229
OnloadOutcome(csvText, temps) == OutcomeOfLines(Split(Trim(csvText), "\n"), temps)

(***************************************************************************)
(* CSV export: downloadCSV                                                 *)
(***************************************************************************)
\* The temperature written without its fractional part
TemperatureTextWhole(t) == NumStr(t \div 10)

\* Number.prototype.toString of a temperature (row.join(',') of a number):
\* the integer part, then the fractional digit unless it is 0
TemperatureText(t) ==
  IF t % 10 = 0 THEN NumStr(t \div 10)
  ELSE NumStr(t \div 10) \o "." \o NumStr(t % 10)

\* a <= b on strings
StrLessEq(a, b) == ~StrLess(b, a)

\* fertileWindows.some(fw => temp.date >= fw.startDate && temp.date <= fw.endDate)
InFertileWindow(date, windows) ==
  \E k \in 1..Len(windows) :
    StrLessEq(windows[k].startDate, date) /\ StrLessEq(date, windows[k].endDate)

YesNo(b) == IF b THEN "Yes" ELSE "No"

\* temp.cervixHeight || ''
OrEmpty(v) == IF v = Null THEN "" ELSE v[1]

RECURSIVE Join(_, _)
\* Array.prototype.join of an array of strings
Join(cells, sep) ==
  IF Len(cells) = 0 THEN ""
  ELSE IF Len(cells) = 1 THEN cells[1]
  ELSE cells[1] \o sep \o Join(Tail(cells), sep)

\* The row of one reading, joined with commas
ExportRow(temp, windows) ==
  Join(<<temp.date,
         TemperatureText(temp.temperature),
         OrEmpty(temp.cervixHeight),
         YesNo(temp.ovulationStrip),
         YesNo(InFertileWindow(temp.date, windows))>>, ",")

\* The header row; the degree sign of the second title is left out
ExportHeader ==
  Join(<<"Date", "Temperature (F)", "Cervix Height", "Ovulation Strip", "Fertile Window">>, ",")

\* csvContent: the header and one row per reading in store order, joined
\* with line feeds
CsvContent(temps, windows) ==
  Join(<<ExportHeader>> \o Tabulate([k \in 1..Len(temps) |-> ExportRow(temps[k], windows)]), "\n")

(***************************************************************************)
(* Inputs                                                                  *)
(***************************************************************************)
MaxOps == 2

MaxPending == 1

\* Daily readings of the days first..final of month ym ("YYYY-MM"): 98.0 on
\* the days hotFirst..hotLast, 97.0 on the others.
DailyReadings(ym, first, final, hotFirst, hotLast) ==
  Tabulate([k \in 1..(final - first + 1) |->
     Reading(ym \o "-" \o PadZero(NumStr(first + k - 1), 2),
             IF (first + k - 1) \in hotFirst..hotLast THEN 980 ELSE 970,
             Null, FALSE)])

\* What localStorage may hold when the component mounts: date-sorted lists
\* with one reading per date, as an earlier session saved them.
SavedStores ==
  { <<>>,
    DailyReadings("2024-01", 3, 15, 10, 16),
    DailyReadings("2024-01", 1, 14, 0, 0),
    DailyReadings("2024-01", 3, 16, 10, 16) \o DailyReadings("2024-02", 2, 14, 9, 15) }

\* The form at the time "Add Reading" is clicked
EntryForms ==
  { [newTemp |-> "98.6",  cervixHeight |-> "High", ovulationStrip |-> TRUE],
    [newTemp |-> "95",    cervixHeight |-> "",     ovulationStrip |-> FALSE],
    [newTemp |-> "105",   cervixHeight |-> "Low",  ovulationStrip |-> FALSE],
    [newTemp |-> "",      cervixHeight |-> "",     ovulationStrip |-> FALSE],
    [newTemp |-> "abc",   cervixHeight |-> "",     ovulationStrip |-> FALSE],
    [newTemp |-> "94.9",  cervixHeight |-> "High", ovulationStrip |-> TRUE],
    [newTemp |-> "105.1", cervixHeight |-> "",     ovulationStrip |-> FALSE] }

SelectedDates == {"", "2024-01-10", "2024-01-20", "2024-02-15"}

CsvScenario ==
  "Date,Temp\n2024-02-01,98.2\n13/40/2024,99.0\n2024-02-02,150\n2/30/2024,98.1\n2024-1-5,98.0\n2024-03,98.3\n"

CsvSameDateTwice == "date,temperature\n2024-01-20,98.1\n1/20/2024,98.4\n"

CsvNoTempColumn == "Date,Value\n2024-02-01,98.2\n"

CsvShortRow == "Date,Temp,Cervix Height,Ovulation Strip\n2024-03-03,98.0,High,Yes\n2024-03-04,98.3\n"

CsvShortCervix == "Date,Temp,Cervix\n2024-03-06,98.0\n"

CsvRejects == "Date,Temp\nnotadate,98\n2024-01-10,98.9\n2024-02-05,94\n1/2,98\n"

CsvExported == "Date,Temperature (F),Cervix Height,Ovulation Strip,Fertile Window\n2024-01-20,97.9,Medium,No,No\n2/15/24,98.7,,Yes,No\n"

CsvFiles ==
  { CsvScenario, CsvSameDateTwice, CsvNoTempColumn, CsvShortRow, CsvShortCervix,
    CsvRejects, CsvExported }

(***************************************************************************)
(* Effects and handlers                                                    *)
(***************************************************************************)
\* setFertileWindows(windows) and the guarded predictNextFertileWindow(windows)
AfterWindows(windows, oldPrediction, west) ==
  [fertileWindows |-> windows,
   prediction     |-> IF Len(windows) >= 2
                      THEN Some(PredictNextFertileWindow(windows, west))
                      ELSE oldPrediction]

\* analyzeFertileWindows() on the store temps: the fertileWindows and
\* prediction state it leaves
AnalyzeFertileWindows(temps, oldWindows, oldPrediction, west) ==
  IF Len(temps) < 14
  THEN [fertileWindows |-> oldWindows, prediction |-> oldPrediction]
  ELSE AfterWindows(ComputeWindows(temps), oldPrediction, west)

\* The effect on [temperatures]: localStorage.setItem and analyzeFertileWindows()
RunEffect(newTemps, a) ==
  /\ temperatures' = newTemps
  /\ saved' = newTemps
  /\ fertileWindows' = a.fertileWindows
  /\ prediction' = a.prediction

\* setTemperatures(newTemps) followed by the re-render and its effect
SetTemperatures(newTemps) ==
  RunEffect(newTemps, AnalyzeFertileWindows(newTemps, fertileWindows, prediction, tzWest))

\* Where the component runs: an engine with the lenient Date parser in a time
\* zone west of Greenwich, an engine with the strict one in UTC
Environments ==
  { [west |-> TRUE, lenient |-> TRUE], [west |-> FALSE, lenient |-> FALSE] }

Init ==
  /\ temperatures = <<>>
  /\ fertileWindows = <<>>
  /\ prediction = Null
  /\ saved \in SavedStores
  /\ mounted = FALSE
  /\ pending = <<>>
  /\ last = [handler |-> "none", path |-> "none"]
  /\ \E e \in Environments : tzWest = e.west /\ lenientDates = e.lenient
  /\ ops = 0

\* The mount effects: the store is loaded from localStorage; the save effect
\* first runs on the empty store, then again on the loaded one.
Mount ==
  /\ ~mounted
  /\ mounted' = TRUE
  /\ SetTemperatures(saved)
  /\ last' = [handler |-> "mount", path |-> "loaded"]
  /\ UNCHANGED <<pending, tzWest, lenientDates, ops>>

\* The new entry addTemperature builds
NewEntry(selectedDate, temp, cervixHeight, ovulationStrip) ==
  Reading(selectedDate, temp, OrNull(cervixHeight), ovulationStrip)

\* The new entry put at the end, without the sort of line 50
UpsertAtUnsorted(temps, newEntry, existingIndex) ==
  IF existingIndex >= 0
  THEN [temps EXCEPT ![existingIndex + 1] = newEntry]
  ELSE Append(temps, newEntry)

\* The two setTemperatures arguments of addTemperature
UpsertAt(temps, newEntry, existingIndex) ==
  IF existingIndex >= 0
  THEN [temps EXCEPT ![existingIndex + 1] = newEntry]
  ELSE SortByDate(Append(temps, newEntry))

\* The array addTemperature passes to setTemperatures
Upserted(temps, newEntry) == UpsertAt(temps, newEntry, FindIndexByDate(temps, newEntry.date))

\* The guards of addTemperature without the range check of lines 30-34
ValidationWithoutRange(newTemp, selectedDate) ==
  IF newTemp = "" \/ selectedDate = "" THEN "ignored" ELSE "valid"

\* The guards of addTemperature: "ignored" (the return of line 28), "alert"
\* (line 32) or "valid"
Validation(newTemp, selectedDate) ==
  IF newTemp = "" \/ selectedDate = "" THEN "ignored"
  ELSE IF OutOfRange(ParseFloat(newTemp)) THEN "alert"
  ELSE "valid"

\* The path addTemperature takes
AddPath(temps, newTemp, selectedDate) ==
  IF Validation(newTemp, selectedDate) # "valid" THEN Validation(newTemp, selectedDate)
  ELSE IF FindIndexByDate(temps, selectedDate) >= 0 THEN "replaced"
  ELSE "inserted"

AddOnPath(path, newTemp, selectedDate, cervixHeight, ovulationStrip) ==
  /\ last' = [handler |-> "addTemperature", path |-> path]
  /\ IF path \in {"ignored", "alert"}
     THEN UNCHANGED <<temperatures, saved, fertileWindows, prediction>>
     ELSE SetTemperatures(
            Upserted(temperatures,
                     NewEntry(selectedDate, ParseFloat(newTemp).v,
                              cervixHeight, ovulationStrip)))

AddTemperature(newTemp, selectedDate, cervixHeight, ovulationStrip) ==
  /\ mounted
  /\ ops < MaxOps
  /\ ops' = ops + 1
  /\ AddOnPath(AddPath(temperatures, newTemp, selectedDate),
               newTemp, selectedDate, cervixHeight, ovulationStrip)
  /\ UNCHANGED <<mounted, pending, tzWest, lenientDates>>

\* importCSV: a FileReader starts reading the chosen file; its onload closes
\* over the `temperatures` of the render the handler belongs to.
ImportCSV(csvText) ==
  /\ mounted
  /\ ops < MaxOps
  /\ Len(pending) < MaxPending
  /\ ops' = ops + 1
  /\ pending' = Append(pending, [csvText |-> csvText, temperatures |-> temperatures])
  /\ last' = [handler |-> "importCSV", path |-> "reading"]
  /\ UNCHANGED <<temperatures, saved, fertileWindows, prediction, mounted, tzWest, lenientDates>>

OnloadWith(o) ==
  /\ last' = [handler |-> "onload", path |-> o.kind]
  /\ IF o.kind = "ok"
     THEN SetTemperatures(o.mergedData)
     ELSE UNCHANGED <<temperatures, saved, fertileWindows, prediction>>

\* reader.onload of the k-th pending reader
Onload(k) ==
  /\ pending' = SubSeq(pending, 1, k - 1) \o SubSeq(pending, k + 1, Len(pending))
  /\ OnloadWith(OnloadOutcome(pending[k].csvText, pending[k].temperatures))
  /\ UNCHANGED <<mounted, tzWest, lenientDates, ops>>

\* downloadCSV: an alert on the empty store, otherwise the file is handed to
\* the browser; the component's state is untouched
DownloadCSV ==
  /\ mounted
  /\ ops < MaxOps
  /\ ops' = ops + 1
  /\ last' = [handler |-> "downloadCSV",
              path    |-> IF Len(temperatures) = 0 THEN "alert" ELSE "saved"]
  /\ UNCHANGED <<temperatures, saved, fertileWindows, prediction, mounted, pending, tzWest, lenientDates>>

Next ==
  \/ Mount
  \/ DownloadCSV
  \/ \E f \in EntryForms, d \in SelectedDates :
       AddTemperature(f.newTemp, d, f.cervixHeight, f.ovulationStrip)
  \/ \E c \in CsvFiles : ImportCSV(c)
  \/ \E k \in 1..Len(pending) : Onload(k)

Spec == Init /\ [][Next]_vars

(***************************************************************************)
(* Properties of the record store                                          *)
(***************************************************************************)

\* C1: no two readings of the store share a date, after any sequence of
\* direct entries and CSV imports, a CSV file with two rows of one date
\* included.
NoDuplicateDates ==
  \A i, j \in 1..Len(temperatures) : i # j => temperatures[i].date # temperatures[j].date

OtherDates(temps, date) == SelectSeq(temps, LAMBDA t : t.date # date)

IsValidEntry(newTemp, selectedDate) ==
  /\ selectedDate # ""
  /\ ~ParseFloat(newTemp).nan
  /\ ParseFloat(newTemp).v >= 950 /\ ParseFloat(newTemp).v <= 1050

UpsertHolds(before, after, r) ==
  /\ Cardinality({i \in 1..Len(after) : after[i].date = r.date}) = 1
  /\ \A i \in 1..Len(after) : after[i].date = r.date => after[i] = r
  /\ OtherDates(after, r.date) = OtherDates(before, r.date)

\* C2: after a valid direct entry the store holds exactly one reading with
\* the entry's date, that reading is the new entry, and the readings of every
\* other date are the ones the store held before.
DirectEntryUpserts ==
  [][\A f \in EntryForms, d \in SelectedDates :
       (/\ last'.handler = "addTemperature"
        /\ IsValidEntry(f.newTemp, d)
        /\ AddTemperature(f.newTemp, d, f.cervixHeight, f.ovulationStrip))
       => UpsertHolds(temperatures, temperatures',
                      Reading(d, ParseFloat(f.newTemp).v, OrNull(f.cervixHeight), f.ovulationStrip))]_vars

CountDate(temps, date) == Cardinality({i \in 1..Len(temps) : temps[i].date = date})

\* C3: a CSV import keeps every reading the store held when the file's
\* content is processed, and adds no second reading to a date the store
\* already held.
ImportKeepsExisting ==
  [][\A k \in 1..Len(pending) :
       (last'.handler = "onload" /\ Onload(k)) =>
         /\ \A i \in 1..Len(temperatures) :
              \E j \in 1..Len(temperatures') : temperatures'[j] = temperatures[i]
         /\ \A i \in 1..Len(temperatures) :
              CountDate(temperatures', temperatures[i].date)
                = CountDate(temperatures, temperatures[i].date)]_vars

HeaderOf(csvText) == Headers(Split(Trim(csvText), "\n")[1])

HasRequiredColumns(csvText) ==
  /\ \E k \in 1..Len(HeaderOf(csvText)) : Includes(HeaderOf(csvText)[k], "date")
  /\ \E k \in 1..Len(HeaderOf(csvText)) : Includes(HeaderOf(csvText)[k], "temp")

DataLines(csvText) == Tail(Split(Trim(csvText), "\n"))

\* The date and temperature of a row whose date and temperature are both
\* valid, Null for any other row
ParsedRow(norm, temp) ==
  IF norm.date = Null THEN Null
  ELSE IF NewDate(norm.date[1]).nan THEN Null
  ELSE IF temp.nan THEN Null
  ELSE IF temp.v \notin 950..1050 THEN Null
  ELSE Some([date |-> norm.date[1], temperature |-> temp.v])

RowFields(row, cols) ==
  IF TooShort(row, cols) THEN Null
  ELSE ParsedRow(NormalizeDate(Trim(row[cols.dateIndex + 1])),
                 ParseFloat(Trim(row[cols.tempIndex + 1])))

RowReading(line, cols) == RowFields(Split(line, ","), cols)

RowReadings(lines, cols) == {RowReading(lines[i], cols) : i \in 1..Len(lines)}

IsNewRow(r, dates) == r # Null /\ r[1].date \notin dates

\* The valid rows of the file whose date the store temps does not hold
ValidNewRows(csvText, temps) ==
  {r \in RowReadings(DataLines(csvText), Columns(HeaderOf(csvText))) :
     IsNewRow(r, {temps[k].date : k \in 1..Len(temps)})}

Holds(temps, r) == \E j \in 1..Len(temps) : temps[j].date = r.date /\ temps[j].temperature = r.temperature

\* C4: an import is best effort per row: when the header has the date and
\* temperature columns, every row with a valid date not yet in the store and
\* a temperature in range is in the store afterwards, whatever the other
\* rows are; a row without the optional cervix or ovulation field does not
\* fail the import.
ImportIsBestEffort ==
  [][\A k \in 1..Len(pending) :
       (/\ last'.handler = "onload"
        /\ Onload(k)
        /\ HasRequiredColumns(pending[k].csvText))
       => \A r \in ValidNewRows(pending[k].csvText, temperatures) : Holds(temperatures', r[1])]_vars

AllRowsRejected(csvText, temps) == ValidNewRows(csvText, temps) = {}

ImportFails(p) == ~HasRequiredColumns(p.csvText) \/ AllRowsRejected(p.csvText, p.temperatures)

\* C5: an import that fails, because the header lacks the date or the
\* temperature column or because no row of the file is accepted, leaves the
\* store, the saved store, the fertile windows and the prediction as they
\* were.
FailingImportChangesNothing ==
  [][\A k \in 1..Len(pending) :
       (/\ last'.handler = "onload"
        /\ ImportFails(pending[k])
        /\ Onload(k))
       => UNCHANGED <<temperatures, fertileWindows, prediction, saved>>]_vars

\* An import has just failed for lack of an accepted row, over a store with
\* windows and a prediction
FailedImportOverAnalyzedStore ==
  /\ last = [handler |-> "onload", path |-> "empty"]
  /\ Len(fertileWindows) >= 1
  /\ prediction # Null

IsRejectedEntry(newTemp, selectedDate) ==
  \/ selectedDate = ""
  \/ ParseFloat(newTemp).nan
  \/ ParseFloat(newTemp).v < 950
  \/ ParseFloat(newTemp).v > 1050

\* C6: a direct entry whose temperature is not a number or is outside
\* 95.0..105.0, or whose date is missing, changes neither the store nor what
\* is derived from it.
RejectedEntryChangesNothing ==
  [][\A f \in EntryForms, d \in SelectedDates :
       (/\ last'.handler = "addTemperature"
        /\ IsRejectedEntry(f.newTemp, d)
        /\ AddTemperature(f.newTemp, d, f.cervixHeight, f.ovulationStrip))
       => UNCHANGED <<temperatures, fertileWindows, prediction, saved>>]_vars

\* A direct entry has just been refused with the range alert, over a store
\* of at least 14 readings
RefusedEntryOverStore ==
  /\ last = [handler |-> "addTemperature", path |-> "alert"]
  /\ Len(temperatures) >= 14

SpanSum(g, o) ==
  g[o + 1].temperature + g[o + 2].temperature + g[o + 3].temperature + g[o + 4].temperature
  + g[o + 5].temperature + g[o + 6].temperature + g[o + 7].temperature

MonthGroup(sorted, m) == SelectSeq(sorted, LAMBDA t : MonthKey(t.date) = m)

MonthsWithData(sorted, n) ==
  {m \in {MonthKey(sorted[i].date) : i \in 1..Len(sorted)} : Len(MonthGroup(sorted, m)) >= n}

IsWarmestSpan(w, g) ==
  \E o \in 0..(Len(g) - 7) :
    /\ w.temperatures = SubSeq(g, o + 1, o + 7)
    /\ w.startDate = g[o + 1].date
    /\ w.endDate = g[o + 7].date
    /\ w.avgTemp = SpanSum(g, o)
    /\ \A q \in 0..(Len(g) - 7) :
         /\ SpanSum(g, q) <= SpanSum(g, o)
         /\ q < o => SpanSum(g, q) < SpanSum(g, o)

WarmestSpans(W, sorted) ==
  /\ {W[i].month : i \in 1..Len(W)} = MonthsWithData(sorted, 14)
  /\ \A i, j \in 1..Len(W) : i < j => StrLess(W[i].month, W[j].month)
  /\ \A i \in 1..Len(W) : IsWarmestSpan(W[i], MonthGroup(sorted, W[i].month))

\* C7: the detector yields one window for each month with at least 14
\* readings and none for the other months, in ascending month order; a
\* month's window is the span of 7 consecutive readings, by position in the
\* month's date-sorted readings, with the highest mean, the span of the
\* lowest offset among equals; and the windows of a store of at least 14
\* readings are the detector's output for it.
DetectorPicksWarmestSpan ==
  /\ WarmestSpans(ComputeWindows(temperatures), SortByDate(temperatures))
  /\ (mounted /\ Len(temperatures) >= 14) => fertileWindows = ComputeWindows(temperatures)

HasTie(g) ==
  \E o, q \in 0..(Len(g) - 7) :
    o < q /\ SpanSum(g, o) = SpanSum(g, q) /\ \A r \in 0..(Len(g) - 7) : SpanSum(g, r) <= SpanSum(g, o)

\* The store has a window for a month whose highest mean two spans share,
\* and a month with too few readings for a window
WindowChosenAmongEquals ==
  /\ Len(temperatures) >= 14
  /\ Len(fertileWindows) >= 1
  /\ HasTie(MonthGroup(SortByDate(temperatures), fertileWindows[1].month))
  /\ \E m \in MonthsWithData(SortByDate(temperatures), 1) :
       m \notin MonthsWithData(SortByDate(temperatures), 14)

\* C8: the end date of every fertile window is its start date plus 6 days,
\* gaps between the readings' dates or not.
WindowSpansSevenDays ==
  \A i \in 1..Len(fertileWindows) :
    NewDate(fertileWindows[i].endDate).v = NewDate(fertileWindows[i].startDate).v + 6

\* C9: with two windows or more, the prediction starts cycleLength days
\* after the start of the last window, cycleLength being the rounded average
\* of the cycle estimates, and ends 6 days after it starts.
PredictionStartsCycleLengthLater ==
  (Len(fertileWindows) >= 2 /\ prediction # Null) =>
    /\ NewDate(prediction[1].startDate).v
         = NewDate(fertileWindows[Len(fertileWindows)].startDate).v + prediction[1].cycleLength
    /\ NewDate(prediction[1].endDate).v = NewDate(prediction[1].startDate).v + 6

\* C10: the windows and the prediction are never stale: they are what the
\* detector and the predictor yield for the current store, and there is a
\* prediction exactly when there are two windows or more.
DerivedStateFresh ==
  mounted =>
    /\ fertileWindows = ComputeWindows(temperatures)
    /\ (prediction # Null) <=> (Len(fertileWindows) >= 2)
    /\ prediction # Null => prediction[1] = PredictNextFertileWindow(fertileWindows, tzWest)

ReadingSet(temps) == {temps[k] : k \in 1..Len(temps)}

ImportsBack(o, temps) == o.kind = "ok" /\ ReadingSet(o.mergedData) = ReadingSet(temps)

\* C11: whenever a store has been exported, the exported CSV text, imported
\* into an empty store, gives a store with the same set of readings: the same
\* dates and for each date the same temperature, cervix height and ovulation
\* strip; the Fertile Window column plays no part.  (downloadCSV writes no
\* text for the empty store.)
ExportImportRoundTrip ==
  last = [handler |-> "downloadCSV", path |-> "saved"] =>
    ImportsBack(OnloadOutcome(CsvContent(temperatures, fertileWindows), <<>>), temperatures)

\* A store with a window has just been exported; it holds readings inside
\* and outside the window, with and without cervix height, with and without
\* a positive ovulation strip, and a temperature without fractional digit
ExportedMixedStore ==
  /\ last = [handler |-> "downloadCSV", path |-> "saved"]
  /\ Len(fertileWindows) >= 1
  /\ \E i, j \in 1..Len(temperatures) :
       /\ InFertileWindow(temperatures[i].date, fertileWindows)
       /\ ~InFertileWindow(temperatures[j].date, fertileWindows)
       /\ temperatures[i].cervixHeight # temperatures[j].cervixHeight
       /\ temperatures[i].ovulationStrip # temperatures[j].ovulationStrip
  /\ \E i \in 1..Len(temperatures) : temperatures[i].temperature % 10 = 0
  /\ \E i \in 1..Len(temperatures) : temperatures[i].temperature % 10 # 0

IsLeapYear(y) == (y % 4 = 0 /\ y % 100 # 0) \/ y % 400 = 0

MonthLength(y, m) ==
  IF m = 2 THEN (IF IsLeapYear(y) THEN 29 ELSE 28)
  ELSE IF m \in {4, 6, 9, 11} THEN 30
  ELSE 31

IsCalendarDay(y, m, d) == m \in 1..12 /\ d >= 1 /\ d <= MonthLength(y, m)

\* s is YYYY-MM-DD, zero padded, and names a day of the calendar
IsISOCalendarDate(s) ==
  /\ IsISOShape(s)
  /\ IsCalendarDay(100 * TwoDigits[SubSeq(s, 1, 2)] + TwoDigits[SubSeq(s, 3, 4)],
                   TwoDigits[SubSeq(s, 6, 7)],
                   TwoDigits[SubSeq(s, 9, 10)])

\* C12: the date of every reading of the store is a valid calendar date in
\* the zero-padded form YYYY-MM-DD: an import writes M/D/YYYY and M/D/YY in
\* that form, keeps YYYY-MM-DD, and skips a row whose date has another shape
\* (2024-1-5) or is no day of the calendar (2024-02-30).
DatesAreISOCalendarDates ==
  \A i \in 1..Len(temperatures) : IsISOCalendarDate(temperatures[i].date)

\* The day of the calendar the program reads a stored date as
DayOf(date) == NewDate(date).v

\* C13: the store is sorted ascending by date in every reachable state: the
\* day a reading's date is read as is never before the day of the reading
\* that precedes it, after inserts, replacements and imports alike.
StoreSortedByDate ==
  \A i \in 1..(Len(temperatures) - 1) :
    /\ ~NewDate(temperatures[i].date).nan
    /\ ~NewDate(temperatures[i + 1].date).nan
    /\ DayOf(temperatures[i].date) <= DayOf(temperatures[i + 1].date)

\* A direct entry has just been inserted before a reading of a later day
InsertedBeforeLaterReading ==
  /\ last = [handler |-> "addTemperature", path |-> "inserted"]
  /\ \E i \in 1..(Len(temperatures) - 1) :
       /\ temperatures[i].temperature \in {950, 986, 1050}
       /\ DayOf(temperatures[i].date) < DayOf(temperatures[i + 1].date)

\* The readings of the store that the array the k-th reader closed over does
\* not hold: they were entered after importCSV started the reader
EnteredSince(k) == ReadingSet(temperatures) \ ReadingSet(pending[k].temperatures)

\* C14: an import is atomic with respect to direct entries: a reading
\* entered after importCSV started reading the file and before reader.onload
\* merges is in the store after the merge, with the values entered, and the
\* import adds no second reading to its date (the duplicate test is made
\* against the store the merge is applied to).
ImportAtomicWithDirectEntries ==
  [][\A k \in 1..Len(pending) :
       (last'.handler = "onload" /\ Onload(k)) =>
         \A r \in EnteredSince(k) :
           /\ r \in ReadingSet(temperatures')
           /\ CountDate(temperatures', r.date) = CountDate(temperatures, r.date)]_vars

====
